---- MODULE Spec2Model ----
(***************************************************************************)
(* Verification of an AVM OperationTx (vms/avm/operation_tx.go).           *)
(*                                                                         *)
(* A process p is one run of the verification pipeline on transaction      *)
(* tx[p]: OperationTx.SyntacticVerify, then OperationTx.SemanticVerify.    *)
(* The loops of both functions are unrolled into steps, so that runs on    *)
(* different transactions interleave against the one UTXO store.           *)
(*                                                                         *)
(* Collaborators whose code is outside operation_tx.go (BaseTx,            *)
(* Operation.Verify, the ancestor UniqueTx, the fx registry and the fxs)   *)
(* return a result chosen among the results their contract allows.         *)
(***************************************************************************)
EXTENDS Integers, Sequences, FiniteSets, TLC

(***************************************************************************)
(* Bounds of the model.                                                    *)
(***************************************************************************)
\* the most operations a transaction carries
MaxOps == 2

\* the most credentials handed to SemanticVerify
MaxCreds == 3

Procs == {1, 2}

Assets == {1, 2}

\* the UTXOIDs inputs may name: outputs 0 and 1 of transaction 1
UTXOIDs == {[TxID |-> 1, OutputIndex |-> 0], [TxID |-> 1, OutputIndex |-> 1]}

\* the output payloads an operation may carry
OutPayloads == {7}

NoUTXO == 0

(***************************************************************************)
(* Sequences over S of length at most n.                                   *)
(***************************************************************************)
SeqsUpTo(S, n) == UNION {[1..m -> S] : m \in 0..n}

(***************************************************************************)
(* The entity model: Operation{Asset, Ins, Outs}, OperationTx{BaseTx, Ops}.*)
(* An input is its UTXOID; its payload In is a token named after it.       *)
(***************************************************************************)
OpInsSet == SeqsUpTo(UTXOIDs, 2)

OpOutsSet == SeqsUpTo(OutPayloads, 1)

OpSet == {o \in [Asset : Assets, Ins : OpInsSet, Outs : OpOutsSet] :
            Len(o.Ins) + Len(o.Outs) <= 2}

BaseInsSet == SeqsUpTo(UTXOIDs, 2)

NilTx == [nil |-> TRUE, Ins |-> <<>>, Ops |-> <<>>]

TxSet == {NilTx} \cup [nil : {FALSE}, Ins : BaseInsSet, Ops : SeqsUpTo(OpSet, MaxOps)]

\* the live UTXO store: for each UTXOID the asset of the unspent output, or NoUTXO
Stores == {[u \in UTXOIDs |-> NoUTXO],
           [u \in UTXOIDs |-> IF u.OutputIndex = 0 THEN 1 ELSE NoUTXO]}

\* what an ancestor transaction may produce: the assets of its outputs, in order
ParentUTXOsSet == SeqsUpTo(Assets, 2)

\* creds[j] of a list of n credentials is the credential named j (0-based)
CredList(n) == [j \in 1..n |-> j - 1]

VARIABLES
  store,      \* vm.state: UTXOID -> asset of the unspent output, or NoUTXO
  tx,         \* tx[p]: the transaction process p verifies
  pc,         \* pc[p]: where process p stands in the pipeline
  synErr,     \* synErr[p]: what SyntacticVerify returned ("none": not yet)
  semErr,     \* semErr[p]: what SemanticVerify returned ("none": not yet)
  inputs,     \* inputs[p]: the ids.Set of SyntacticVerify
  k,          \* k[p]: index (from 1) of the operation the running loop is at
  i,          \* i[p]: index (from 0) of the input the inner loop is at
  creds,      \* creds[p]: the credential list given to SemanticVerify
  offset,     \* offset[p]: SemanticVerify's offset
  utxos,      \* utxos[p]: outputs resolved for the current operation
  credIntfs,  \* credIntfs[p]: credentials collected for the current operation
  checks,     \* checks[p]: the checks SyntacticVerify evaluated, in order
  lookups,    \* lookups[p]: every input resolution SemanticVerify made
  fxCalls,    \* fxCalls[p]: every dispatch SemanticVerify made
  packer,     \* a wrappers.Packer session: Bytes, Offset, MaxSize, Errored
  packed,     \* the values the session packed, in order, each with its width
  calls,      \* what was called on the session: overflowing packs, calls after an error
  id,         \* an ids.ID: its bytes
  bit,        \* the last call of id.Bit: the index and the result
  pool,       \* the transactions the VM knows, by transaction ID
  stack,      \* the calls of SemanticVerify in progress, the innermost last
  ret         \* what the last call of UniqueTx.Verify that ended returned

packerVars == <<packer, packed, calls>>

idVars == <<id, bit>>

ancestorVars == <<pool, stack, ret>>

auxVars == <<packerVars, idVars, ancestorVars>>

vars == <<store, tx, pc, synErr, semErr, inputs, k, i, creds, offset, utxos,
          credIntfs, checks, lookups, fxCalls, auxVars>>

txVars == <<store, tx, pc, synErr, semErr, inputs, k, i, creds, offset, utxos,
            credIntfs, checks, lookups, fxCalls>>

synVars == <<synErr, inputs, checks>>

(***************************************************************************)
(* UTXOID.InputID and UTXOID.InputSource.                                  *)
(***************************************************************************)
InputID(in) == <<in.TxID, in.OutputIndex>>

InputSource(in) == <<in.TxID, in.OutputIndex>>

\* the payload In of an input
InPayload(in) == 10 * in.TxID + in.OutputIndex

(***************************************************************************)
(* The canonical order of operations: the codec's bytes of each operation, *)
(* asset first and then the payload, compared lexicographically.           *)
(***************************************************************************)
RECURSIVE MarshalIns(_)
MarshalIns(ins) ==
  IF ins = <<>> THEN <<>>
  ELSE <<Head(ins).TxID, Head(ins).OutputIndex>> \o MarshalIns(Tail(ins))

Marshal(op) ==
  <<op.Asset>> \o <<Len(op.Ins)>> \o MarshalIns(op.Ins) \o <<Len(op.Outs)>> \o op.Outs

\* bytes.Compare(a, b) == -1
RECURSIVE BytesLess(_, _)
BytesLess(a, b) ==
  IF b = <<>> THEN FALSE
  ELSE IF a = <<>> THEN TRUE
  ELSE IF Head(a) # Head(b) THEN Head(a) < Head(b)
  ELSE BytesLess(Tail(a), Tail(b))

Less(ops, x, y) == BytesLess(Marshal(ops[x]), Marshal(ops[y]))

isSortedAndUniqueOperations(ops) ==
  \A x \in 1..(Len(ops) - 1) : Less(ops, x, x + 1)

(***************************************************************************)
(* The state after construction: either one transaction is submitted, or   *)
(* two transactions are submitted to the same VM and verified concurrently.*)
(***************************************************************************)
\* the transactions submitted in pairs: one operation at most, spending one output at most
SmallTxSet == {t \in TxSet : /\ ~t.nil
                             /\ t.Ins = <<>>
                             /\ Len(t.Ops) <= 1
                             /\ \A x \in 1..Len(t.Ops) : Len(t.Ops[x].Ins) <= 1}

\* the zero value of a Packer: no bytes, cursor at 0, no room, no error
NewPacker(bytes, maxSize) ==
  [Bytes |-> bytes, Offset |-> 0, MaxSize |-> maxSize, Errored |-> FALSE]

\* no Packer session is open
PackerIdle ==
  /\ packer = NewPacker(<<>>, 0)
  /\ packed = <<>>
  /\ calls = [overflow |-> FALSE, afterErr |-> {}]

\* no ID is being asked for a bit
IDIdle ==
  /\ id = <<>>
  /\ bit = [called |-> FALSE, i |-> 0, res |-> 0]

\* no transaction pool is being walked
AncestorsIdle ==
  /\ pool = <<>>
  /\ stack = <<>>
  /\ ret = "none"

InitLocals ==
  /\ synErr = [p \in Procs |-> "none"]
  /\ semErr = [p \in Procs |-> "none"]
  /\ inputs = [p \in Procs |-> {}]
  /\ k = [p \in Procs |-> 1]
  /\ i = [p \in Procs |-> 0]
  /\ creds = [p \in Procs |-> <<>>]
  /\ offset = [p \in Procs |-> 0]
  /\ utxos = [p \in Procs |-> <<>>]
  /\ credIntfs = [p \in Procs |-> <<>>]
  /\ checks = [p \in Procs |-> <<>>]
  /\ lookups = [p \in Procs |-> <<>>]
  /\ fxCalls = [p \in Procs |-> <<>>]

\* one transaction is submitted: process 1 verifies it
Init ==
  /\ store \in Stores
  /\ \E t \in TxSet : tx = [p \in Procs |-> IF p = 1 THEN t ELSE NilTx]
  /\ pc = [p \in Procs |-> IF p = 1 THEN "start" ELSE "absent"]
  /\ InitLocals
  /\ PackerIdle /\ IDIdle /\ AncestorsIdle

\* two transactions are submitted: both processes verify, against the same store
InitConcurrent ==
  /\ store \in Stores
  /\ tx \in [Procs -> SmallTxSet]
  /\ pc = [p \in Procs |-> "start"]
  /\ InitLocals
  /\ PackerIdle /\ IDIdle /\ AncestorsIdle

(***************************************************************************)
(* OperationTx.SyntacticVerify.                                            *)
(***************************************************************************)
\* line 99 left out: an input checked is not entered into the set
RECURSIVE CheckIns_NoAdd(_, _, _)
CheckIns_NoAdd(ins, set, n) ==
  IF ins = <<>> THEN [dup |-> FALSE, set |-> set, n |-> n]
  ELSE IF InputID(Head(ins)) \in set THEN [dup |-> TRUE, set |-> set, n |-> n + 1]
  ELSE CheckIns_NoAdd(Tail(ins), set, n + 1)

\* the inner loop over op.Ins: stops at the first input already in the set
RECURSIVE CheckIns(_, _, _)
CheckIns(ins, set, n) ==
  IF ins = <<>> THEN [dup |-> FALSE, set |-> set, n |-> n]
  ELSE IF InputID(Head(ins)) \in set THEN [dup |-> TRUE, set |-> set, n |-> n + 1]
  ELSE CheckIns(Tail(ins), set \cup {InputID(Head(ins))}, n + 1)

\* lines 85-88 left out: the base inputs are not entered into the set
BaseInputs_Empty(t) == {}

BaseInputs(t) == {InputID(t.Ins[x]) : x \in 1..Len(t.Ins)}

SynReturn(p, e, done) ==
  /\ synErr' = [synErr EXCEPT ![p] = e]
  /\ checks' = [checks EXCEPT ![p] = checks[p] \o done]
  /\ pc' = [pc EXCEPT ![p] = "synRet"]

\* lines 76-88: the nil check, BaseTx.SyntacticVerify, and the set of base inputs
SynBase(p) ==
  /\ pc[p] = "start"
  /\ IF tx[p].nil
     THEN /\ SynReturn(p, "errNilTx", <<"nil">>)
          /\ UNCHANGED <<inputs, k>>
     ELSE \E baseErr \in {"nil", "errBaseTx"} :
            IF baseErr # "nil"
            THEN /\ SynReturn(p, baseErr, <<"nil", "base">>)
                 /\ UNCHANGED <<inputs, k>>
            ELSE /\ inputs' = [inputs EXCEPT ![p] = BaseInputs(tx[p])]
                 /\ k' = [k EXCEPT ![p] = 1]
                 /\ checks' = [checks EXCEPT ![p] = <<"nil", "base">>]
                 /\ pc' = [pc EXCEPT ![p] = "synOps"]
                 /\ UNCHANGED synErr
  /\ UNCHANGED <<auxVars, store, tx, semErr, i, creds, offset, utxos, credIntfs, lookups, fxCalls>>

\* lines 94-100 moved before line 91: the inputs are tested before op.Verify
SynOp_InputsFirst(p) ==
  /\ pc[p] = "synOps"
  /\ k[p] <= Len(tx[p].Ops)
  /\ LET op == tx[p].Ops[k[p]]
         r == CheckIns(op.Ins, inputs[p], 0)
         seen == [x \in 1..r.n |-> "doubleSpend"]
     IN IF r.dup
        THEN /\ SynReturn(p, "errDoubleSpend", seen)
             /\ UNCHANGED <<inputs, k>>
        ELSE \E opErr \in {"nil", "errOpVerify"} :
               IF opErr # "nil"
               THEN /\ SynReturn(p, opErr, seen \o <<"opVerify">>)
                    /\ UNCHANGED <<inputs, k>>
               ELSE /\ inputs' = [inputs EXCEPT ![p] = r.set]
                    /\ k' = [k EXCEPT ![p] = k[p] + 1]
                    /\ checks' = [checks EXCEPT ![p] = checks[p] \o seen \o <<"opVerify">>]
                    /\ UNCHANGED <<pc, synErr>>
  /\ UNCHANGED <<auxVars, store, tx, semErr, i, creds, offset, utxos, credIntfs, lookups, fxCalls>>

\* lines 90-101: one iteration of the loop over t.Ops
SynOp(p) ==
  /\ pc[p] = "synOps"
  /\ k[p] <= Len(tx[p].Ops)
  /\ LET op == tx[p].Ops[k[p]]
         r == CheckIns(op.Ins, inputs[p], 0)
         seen == [x \in 1..r.n |-> "doubleSpend"]
     IN \E opErr \in {"nil", "errOpVerify"} :
          IF opErr # "nil"
          THEN /\ SynReturn(p, opErr, <<"opVerify">>)
               /\ UNCHANGED <<inputs, k>>
          ELSE IF r.dup
          THEN /\ SynReturn(p, "errDoubleSpend", <<"opVerify">> \o seen)
               /\ UNCHANGED <<inputs, k>>
          ELSE /\ inputs' = [inputs EXCEPT ![p] = r.set]
               /\ k' = [k EXCEPT ![p] = k[p] + 1]
               /\ checks' = [checks EXCEPT ![p] = checks[p] \o <<"opVerify">> \o seen]
               /\ UNCHANGED <<pc, synErr>>
  /\ UNCHANGED <<auxVars, store, tx, semErr, i, creds, offset, utxos, credIntfs, lookups, fxCalls>>

\* lines 102-104 left out: nil is returned whatever the order of the operations
SynSorted_Skip(p) ==
  /\ pc[p] = "synOps"
  /\ k[p] > Len(tx[p].Ops)
  /\ SynReturn(p, "nil", <<"sorted">>)
  /\ UNCHANGED <<auxVars, store, tx, semErr, inputs, k, i, creds, offset, utxos, credIntfs,
                 lookups, fxCalls>>

\* lines 102-105: the sorted-and-unique check and the return
SynSorted(p) ==
  /\ pc[p] = "synOps"
  /\ k[p] > Len(tx[p].Ops)
  /\ SynReturn(p, IF isSortedAndUniqueOperations(tx[p].Ops)
                  THEN "nil" ELSE "errOperationsNotSortedUnique", <<"sorted">>)
  /\ UNCHANGED <<auxVars, store, tx, semErr, inputs, k, i, creds, offset, utxos, credIntfs,
                 lookups, fxCalls>>

(***************************************************************************)
(* The pipeline (UniqueTx.Verify): SemanticVerify is called on a           *)
(* transaction once SyntacticVerify has returned nil for it.               *)
(***************************************************************************)
\* the result of SyntacticVerify is not looked at
CanStartSemantic_Any(p) == pc[p] = "synRet"

CanStartSemantic(p) == pc[p] = "synRet" /\ synErr[p] = "nil"

(***************************************************************************)
(* OperationTx.SemanticVerify.                                             *)
(***************************************************************************)
SemReturn(p, e) ==
  /\ semErr' = [semErr EXCEPT ![p] = e]
  /\ pc' = [pc EXCEPT ![p] = "done"]

\* lines 109-113: the call with its credentials, BaseTx.SemanticVerify, and offset
SemBase(p) ==
  /\ CanStartSemantic(p)
  /\ \E n \in 0..MaxCreds, baseErr \in {"nil", "errBaseSemantic"} :
       /\ creds' = [creds EXCEPT ![p] = CredList(n)]
       /\ IF baseErr # "nil"
          THEN /\ SemReturn(p, baseErr)
               /\ UNCHANGED <<offset, k, i>>
          ELSE /\ offset' = [offset EXCEPT ![p] = Len(tx[p].Ins)]
               /\ k' = [k EXCEPT ![p] = 1]
               /\ i' = [i EXCEPT ![p] = 0]
               /\ pc' = [pc EXCEPT ![p] = "semOps"]
               /\ UNCHANGED semErr
  /\ UNCHANGED <<auxVars, store, tx, synVars, utxos, credIntfs, lookups, fxCalls>>

\* line 125 without the offset: creds[i]
CredIndex_NoOffset(p) == i[p]

\* the position of creds read at line 125 for input i of the current operation
CredIndex(p) == i[p] + offset[p]

\* lines 160-163 left out: an ancestor's output is taken whatever its asset
Resolve_NoAncestorAssetCheck(st, op, in, parentErr, decided, parentUTXOs) ==
  LET src == InputSource(in)
      found == [in |-> in, from |-> "none", asset |-> NoUTXO, verified |-> FALSE,
                decided |-> FALSE, nOuts |-> -1, err |-> "nil"]
  IN IF st[in] # NoUTXO
     THEN [found EXCEPT !.from = "store", !.asset = st[in],
                        !.err = IF st[in] # op.Asset THEN "errAssetIDMismatch" ELSE "nil"]
     ELSE IF parentErr
     THEN [found EXCEPT !.err = "errMissingUTXO"]
     ELSE IF decided
     THEN [found EXCEPT !.verified = TRUE, !.decided = TRUE, !.err = "errMissingUTXO"]
     ELSE IF Len(parentUTXOs) <= src[2]
     THEN [found EXCEPT !.verified = TRUE, !.nOuts = Len(parentUTXOs),
                        !.err = "errInvalidUTXO"]
     ELSE [found EXCEPT !.from = "ancestor", !.verified = TRUE,
                        !.nOuts = Len(parentUTXOs), !.asset = parentUTXOs[src[2] + 1],
                        !.err = "nil"]

\* lines 148-150 left out: the status of the ancestor is not looked at
Resolve_DecidedIgnored(st, op, in, parentErr, decided, parentUTXOs) ==
  LET src == InputSource(in)
      found == [in |-> in, from |-> "none", asset |-> NoUTXO, verified |-> FALSE,
                decided |-> FALSE, nOuts |-> -1, err |-> "nil"]
  IN IF st[in] # NoUTXO
     THEN [found EXCEPT !.from = "store", !.asset = st[in],
                        !.err = IF st[in] # op.Asset THEN "errAssetIDMismatch" ELSE "nil"]
     ELSE IF parentErr
     THEN [found EXCEPT !.err = "errMissingUTXO"]
     ELSE IF Len(parentUTXOs) <= src[2]
     THEN [found EXCEPT !.verified = TRUE, !.decided = decided,
                        !.nOuts = Len(parentUTXOs), !.err = "errInvalidUTXO"]
     ELSE [found EXCEPT !.from = "ancestor", !.verified = TRUE, !.decided = decided,
                        !.nOuts = Len(parentUTXOs), !.asset = parentUTXOs[src[2] + 1],
                        !.err = IF parentUTXOs[src[2] + 1] # op.Asset
                                THEN "errAssetIDMismatch" ELSE "nil"]

\* lines 140-164 moved before line 128: the ancestor is asked before the store
Resolve_AncestorFirst(st, op, in, parentErr, decided, parentUTXOs) ==
  LET src == InputSource(in)
      found == [in |-> in, from |-> "none", asset |-> NoUTXO, verified |-> FALSE,
                decided |-> FALSE, nOuts |-> -1, err |-> "nil"]
  IN IF ~parentErr /\ ~decided /\ Len(parentUTXOs) > src[2]
     THEN [found EXCEPT !.from = "ancestor", !.verified = TRUE,
                        !.nOuts = Len(parentUTXOs), !.asset = parentUTXOs[src[2] + 1],
                        !.err = IF parentUTXOs[src[2] + 1] # op.Asset
                                THEN "errAssetIDMismatch" ELSE "nil"]
     ELSE IF st[in] # NoUTXO
     THEN [found EXCEPT !.from = "store", !.asset = st[in],
                        !.err = IF st[in] # op.Asset THEN "errAssetIDMismatch" ELSE "nil"]
     ELSE [found EXCEPT !.err = "errMissingUTXO"]

\* lines 128-164 for one input: what the resolution found, and the error if any.
\* parentErr, decided and parentUTXOs are what the ancestor UniqueTx answers.
Resolve(st, op, in, parentErr, decided, parentUTXOs) ==
  LET src == InputSource(in)
      found == [in |-> in, from |-> "none", asset |-> NoUTXO, verified |-> FALSE,
                decided |-> FALSE, nOuts |-> -1, err |-> "nil"]
  IN IF st[in] # NoUTXO
     THEN [found EXCEPT !.from = "store", !.asset = st[in],
                        !.err = IF st[in] # op.Asset THEN "errAssetIDMismatch" ELSE "nil"]
     ELSE IF parentErr
     THEN [found EXCEPT !.err = "errMissingUTXO"]
     ELSE IF decided
     THEN [found EXCEPT !.verified = TRUE, !.decided = TRUE, !.err = "errMissingUTXO"]
     ELSE IF Len(parentUTXOs) <= src[2]
     THEN [found EXCEPT !.verified = TRUE, !.nOuts = Len(parentUTXOs),
                        !.err = "errInvalidUTXO"]
     ELSE [found EXCEPT !.from = "ancestor", !.verified = TRUE,
                        !.nOuts = Len(parentUTXOs), !.asset = parentUTXOs[src[2] + 1],
                        !.err = IF parentUTXOs[src[2] + 1] # op.Asset
                                THEN "errAssetIDMismatch" ELSE "nil"]

\* the answers of the ancestor that the code asks for, given the earlier ones
AncestorAnswers ==
  {a \in [parentErr : BOOLEAN, decided : BOOLEAN, parentUTXOs : ParentUTXOsSet] :
     a.parentErr => (~a.decided /\ a.parentUTXOs = <<>>)}

\* lines 122-165: one iteration of the loop over op.Ins
SemInput(p) ==
  /\ pc[p] = "semOps"
  /\ k[p] <= Len(tx[p].Ops)
  /\ i[p] < Len(tx[p].Ops[k[p]].Ins)
  /\ LET op == tx[p].Ops[k[p]]
         in == op.Ins[i[p] + 1]
     IN IF CredIndex(p) >= Len(creds[p])
        THEN \* creds[i+offset] is out of range: the runtime panics
             /\ pc' = [pc EXCEPT ![p] = "panic"]
             /\ UNCHANGED <<semErr, i, utxos, credIntfs, lookups>>
        ELSE \E a \in AncestorAnswers :
               LET r == Resolve(store, op, in, a.parentErr, a.decided, a.parentUTXOs)
               IN /\ credIntfs' = [credIntfs EXCEPT
                                     ![p] = Append(credIntfs[p], creds[p][CredIndex(p) + 1])]
                  /\ lookups' = [lookups EXCEPT
                                   ![p] = Append(lookups[p],
                                                 [op |-> k[p], i |-> i[p],
                                                  cred |-> CredIndex(p), res |-> r])]
                  /\ IF r.err # "nil"
                     THEN /\ SemReturn(p, r.err)
                          /\ UNCHANGED <<i, utxos>>
                     ELSE /\ utxos' = [utxos EXCEPT ![p] = Append(utxos[p], r.asset)]
                          /\ i' = [i EXCEPT ![p] = i[p] + 1]
                          /\ UNCHANGED <<pc, semErr>>
  /\ UNCHANGED <<auxVars, store, tx, synVars, k, creds, offset, fxCalls>>

\* the cases of lines 172-176 exchanged: the first output is preferred
FxObj_OutputsFirst(op) ==
  IF Len(op.Outs) > 0 THEN [kind |-> "out", payload |-> op.Outs[1]]
  ELSE IF Len(op.Ins) > 0 THEN [kind |-> "in", payload |-> InPayload(op.Ins[1])]
  ELSE [kind |-> "nil", payload |-> 0]

\* lines 171-177: the payload that selects the fx
FxObj(op) ==
  IF Len(op.Ins) > 0 THEN [kind |-> "in", payload |-> InPayload(op.Ins[1])]
  ELSE IF Len(op.Outs) > 0 THEN [kind |-> "out", payload |-> op.Outs[1]]
  ELSE [kind |-> "nil", payload |-> 0]

\* lines 180-182 left out: the error of getFx is dropped and the operation passed over
Dispatch_UnknownPasses(fxErr, usage, opErr) ==
  IF fxErr # "nil"
  THEN [found |-> FALSE, permitted |-> FALSE, invoked |-> FALSE, err |-> "nil"]
  ELSE IF ~usage
  THEN [found |-> TRUE, permitted |-> FALSE, invoked |-> FALSE, err |-> "errIncompatibleFx"]
  ELSE [found |-> TRUE, permitted |-> TRUE, invoked |-> TRUE, err |-> opErr]

\* lines 185-187 left out: the fx is invoked whether permitted for the asset or not
Dispatch_NoUsageCheck(fxErr, usage, opErr) ==
  IF fxErr # "nil"
  THEN [found |-> FALSE, permitted |-> FALSE, invoked |-> FALSE, err |-> fxErr]
  ELSE [found |-> TRUE, permitted |-> usage, invoked |-> TRUE, err |-> opErr]

\* lines 179-192: getFx, verifyFxUsage and fx.VerifyOperation, given their answers
Dispatch(fxErr, usage, opErr) ==
  IF fxErr # "nil"
  THEN [found |-> FALSE, permitted |-> FALSE, invoked |-> FALSE, err |-> fxErr]
  ELSE IF ~usage
  THEN [found |-> TRUE, permitted |-> FALSE, invoked |-> FALSE, err |-> "errIncompatibleFx"]
  ELSE [found |-> TRUE, permitted |-> TRUE, invoked |-> TRUE, err |-> opErr]

\* the answers of the fx registry and of the fx that the code asks for
FxAnswers ==
  {a \in [fxErr : {"nil", "errUnknownFx"}, usage : BOOLEAN, opErr : {"nil", "errFxVerify"}] :
     /\ a.fxErr # "nil" => ~a.usage
     /\ ~a.usage => a.opErr = "nil"}

\* lines 166-193: the end of one iteration of the loop over t.Ops
SemDispatch(p) ==
  /\ pc[p] = "semOps"
  /\ k[p] <= Len(tx[p].Ops)
  /\ i[p] = Len(tx[p].Ops[k[p]].Ins)
  /\ LET op == tx[p].Ops[k[p]]
     IN \E a \in FxAnswers :
          LET d == Dispatch(a.fxErr, a.usage, a.opErr)
          IN /\ offset' = [offset EXCEPT ![p] = offset[p] + Len(op.Ins)]
             /\ fxCalls' = [fxCalls EXCEPT
                              ![p] = Append(fxCalls[p],
                                            [op |-> k[p], fxObj |-> FxObj(op),
                                             utxos |-> utxos[p], creds |-> credIntfs[p],
                                             outs |-> op.Outs, ans |-> a, res |-> d])]
             /\ IF d.err # "nil"
                THEN /\ SemReturn(p, d.err)
                     /\ UNCHANGED <<k, i, utxos, credIntfs>>
                ELSE /\ k' = [k EXCEPT ![p] = k[p] + 1]
                     /\ i' = [i EXCEPT ![p] = 0]
                     /\ utxos' = [utxos EXCEPT ![p] = <<>>]
                     /\ credIntfs' = [credIntfs EXCEPT ![p] = <<>>]
                     /\ UNCHANGED <<pc, semErr>>
  /\ UNCHANGED <<auxVars, store, tx, synVars, creds, lookups>>

\* line 194: every operation passed
SemNil(p) ==
  /\ pc[p] = "semOps"
  /\ k[p] > Len(tx[p].Ops)
  /\ SemReturn(p, "nil")
  /\ UNCHANGED <<auxVars, store, tx, synVars, k, i, creds, offset, utxos, credIntfs, lookups,
                 fxCalls>>

Next ==
  \E p \in Procs :
    \/ SynBase(p)
    \/ SynOp(p)
    \/ SynSorted(p)
    \/ SemBase(p)
    \/ SemInput(p)
    \/ SemDispatch(p)
    \/ SemNil(p)

Spec == Init /\ [][Next]_vars

SpecConcurrent == InitConcurrent /\ [][Next]_vars

(***************************************************************************)
(* wrappers.Packer: a byte buffer bounded by MaxSize, with a read cursor   *)
(* and an error that sticks.                                               *)
(***************************************************************************)
\* the largest MaxSize a session is opened with
MaxPackSize == 3

ByteLen == 1

ShortLen == 2

\* the bytes PackByte is called with
ByteVals == {1, 255}

\* the shorts PackShort is called with
ShortVals == {1, 17, 258}

\* the buffers a decoding session is opened over
DecodeBuffers == {<<0, 17>>, <<1, 2, 3>>}

\* the w bytes of v, most significant first; v is taken at the width of w bytes
BigEndian(v, w) == [j \in 1..w |-> ((v % (256 ^ w)) \div (256 ^ (w - j))) % 256]

\* the value whose big-endian bytes are bs
RECURSIVE FromBigEndian(_)
FromBigEndian(bs) ==
  IF bs = <<>> THEN 0
  ELSE Head(bs) * (256 ^ (Len(bs) - 1)) + FromBigEndian(Tail(bs))

\* the session reports an error
Errored(pk) == pk.Errored

Pack_OverflowClears(pk, v, w, partial) ==
  IF Errored(pk) THEN pk
  ELSE IF Len(pk.Bytes) + w > pk.MaxSize
       THEN [pk EXCEPT !.Errored = TRUE, !.Bytes = <<>>]
       ELSE [pk EXCEPT !.Bytes = @ \o BigEndian(v, w)]

Pack_NotSticky(pk, v, w, partial) ==
  IF Len(pk.Bytes) + w > pk.MaxSize
  THEN [pk EXCEPT !.Errored = TRUE]
  ELSE [pk EXCEPT !.Bytes = @ \o BigEndian(v, w)]

\* PackByte, PackShort: append the w bytes of v. A session with an error does
\* nothing. A value that does not fit sets the error and writes nothing, or
\* (partial) writes the leading bytes that fit.
Pack(pk, v, w, partial) ==
  IF Errored(pk) THEN pk
  ELSE IF Len(pk.Bytes) + w > pk.MaxSize
       THEN [pk EXCEPT !.Errored = TRUE,
                       !.Bytes = IF partial
                                 THEN @ \o SubSeq(BigEndian(v, w), 1, pk.MaxSize - Len(@))
                                 ELSE @]
       ELSE [pk EXCEPT !.Bytes = @ \o BigEndian(v, w)]

\* UnpackByte, UnpackShort: read w bytes at the cursor and advance it. A
\* session with an error does nothing; too few bytes left sets the error.
Unpack(pk, w) ==
  IF Errored(pk) THEN [pk |-> pk, val |-> 0]
  ELSE IF Len(pk.Bytes) - pk.Offset < w
       THEN [pk |-> [pk EXCEPT !.Errored = TRUE], val |-> 0]
       ELSE [pk |-> [pk EXCEPT !.Offset = @ + w],
             val |-> FromBigEndian(SubSeq(pk.Bytes, pk.Offset + 1, pk.Offset + w))]

\* what a session reads when it unpacks values of the widths ws in turn;
\* -1 stands for a read that failed
RECURSIVE UnpackAll(_, _)
UnpackAll(pk, ws) ==
  IF ws = <<>> THEN <<>>
  ELSE LET r == Unpack(pk, Head(ws))
       IN  <<IF Errored(r.pk) THEN -1 ELSE r.val>> \o UnpackAll(r.pk, Tail(ws))

\* a session is opened to encode, with room for up to MaxPackSize bytes, or to
\* decode a buffer
InitPacker ==
  /\ \/ \E m \in 0..MaxPackSize : packer = NewPacker(<<>>, m)
     \/ \E b \in DecodeBuffers : packer = NewPacker(b, 0)
  /\ packed = <<>>
  /\ calls = [overflow |-> FALSE, afterErr |-> {}]

\* a call of PackByte or PackShort on the session
PackCall(name, v, w) ==
  \E partial \in BOOLEAN :
    /\ packer' = Pack(packer, v, w, partial)
    /\ packed' = IF ~Errored(packer) /\ ~Errored(packer')
                 THEN Append(packed, [w |-> w, v |-> v])
                 ELSE packed
    /\ calls' = [overflow |-> calls.overflow
                               \/ (~Errored(packer) /\ packer.MaxSize - Len(packer.Bytes) < w),
                 afterErr |-> IF Errored(packer) THEN calls.afterErr \cup {name}
                              ELSE calls.afterErr]

\* a call of UnpackByte or UnpackShort on the session
UnpackCall(name, w) ==
  /\ packer' = Unpack(packer, w).pk
  /\ calls' = [calls EXCEPT !.afterErr = IF Errored(packer) THEN @ \cup {name} ELSE @]
  /\ UNCHANGED packed

PackByte ==
  /\ \E v \in ByteVals : PackCall("PackByte", v, ByteLen)
  /\ UNCHANGED <<txVars, idVars, ancestorVars>>

PackShort ==
  /\ \E v \in ShortVals : PackCall("PackShort", v, ShortLen)
  /\ UNCHANGED <<txVars, idVars, ancestorVars>>

UnpackByte ==
  /\ UnpackCall("UnpackByte", ByteLen)
  /\ UNCHANGED <<txVars, idVars, ancestorVars>>

UnpackShort ==
  /\ UnpackCall("UnpackShort", ShortLen)
  /\ UNCHANGED <<txVars, idVars, ancestorVars>>

NextPacker == PackByte \/ PackShort \/ UnpackByte \/ UnpackShort

\* only a Packer session runs: no transaction is verified
InitPackerOnly ==
  /\ store = [u \in UTXOIDs |-> NoUTXO]
  /\ tx = [p \in Procs |-> NilTx]
  /\ pc = [p \in Procs |-> "absent"]
  /\ InitLocals
  /\ InitPacker /\ IDIdle /\ AncestorsIdle

SpecPacker == InitPackerOnly /\ [][NextPacker]_vars

(***************************************************************************)
(* ids.ID: 32 bytes, and the bit of them that Bit(i) returns.              *)
(***************************************************************************)
IDLen == 32

BitsPerByte == 8

\* NewID([32]byte{...}) with bit n of byte j set and no other
OneBitID(j, n) == [b \in 1..IDLen |-> IF b = j + 1 THEN 2 ^ n ELSE 0]

\* the identifiers Bit is asked about: every identifier with a single bit
\* set, the empty one, the full one, and the one of TestID
IDs ==
  {OneBitID(j, n) : j \in 0..(IDLen - 1), n \in 0..(BitsPerByte - 1)}
    \cup {[b \in 1..IDLen |-> 0],
          [b \in 1..IDLen |-> 255],
          [b \in 1..IDLen |-> IF b = 1 THEN 24 ELSE 0]}

Bit_MostSignificantFirst(idBytes, n) ==
  LET byteIndex == n \div BitsPerByte
      bitIndex == n % BitsPerByte
      b == idBytes[byteIndex + 1]
  IN  (b \div (2 ^ (BitsPerByte - 1 - bitIndex))) % 2

\* ID.Bit: byte n / 8, shifted right by n mod 8, masked with 1
Bit(idBytes, n) ==
  LET byteIndex == n \div BitsPerByte
      bitIndex == n % BitsPerByte
      b == idBytes[byteIndex + 1]
  IN  (b \div (2 ^ bitIndex)) % 2

InitID ==
  /\ id \in IDs
  /\ bit = [called |-> FALSE, i |-> 0, res |-> 0]

\* the call of id.Bit(n): one bit is asked of the identifier
BitCall ==
  /\ ~bit.called
  /\ \E n \in 0..(IDLen * BitsPerByte - 1) :
       bit' = [called |-> TRUE, i |-> n, res |-> Bit(id, n)]
  /\ UNCHANGED <<id, txVars, packerVars, ancestorVars>>

NextID == BitCall

\* only an ID is asked for its bits: no transaction is verified
InitIDOnly ==
  /\ store = [u \in UTXOIDs |-> NoUTXO]
  /\ tx = [p \in Procs |-> NilTx]
  /\ pc = [p \in Procs |-> "absent"]
  /\ InitLocals
  /\ PackerIdle /\ InitID /\ AncestorsIdle

SpecID == InitIDOnly /\ [][NextID]_vars

(***************************************************************************)
(* OperationTx.UTXOs and OperationTx.InputUTXOs.                           *)
(***************************************************************************)
\* t.BaseTx.UTXOs(): one UTXO per output of the base transaction, numbered from 0
BaseUTXOs(t, txID) ==
  [x \in 1..Len(t.BaseOuts) |->
     [TxID |-> txID, OutputIndex |-> x - 1, Asset |-> t.BaseOuts[x],
      Out |-> CHOOSE o \in OutPayloads : TRUE]]

\* lines 63-70 with the index counted within the operation
RECURSIVE AppendOuts_IndexInOp(_, _, _, _)
AppendOuts_IndexInOp(outs, asset, txID, us) ==
  IF outs = <<>> THEN us
  ELSE Append(AppendOuts_IndexInOp(SubSeq(outs, 1, Len(outs) - 1), asset, txID, us),
              [TxID |-> txID, OutputIndex |-> Len(outs) - 1, Asset |-> asset,
               Out |-> outs[Len(outs)]])

\* lines 60-70: the loop over op.Outs; the index is uint32(len(utxos)), and
\* the lists here stay far below 2^32 entries
RECURSIVE AppendOuts(_, _, _, _)
AppendOuts(outs, asset, txID, us) ==
  IF outs = <<>> THEN us
  ELSE AppendOuts(Tail(outs), asset, txID,
                  Append(us, [TxID |-> txID, OutputIndex |-> Len(us),
                              Asset |-> asset, Out |-> Head(outs)]))

\* lines 57-71: the loop over t.Ops
RECURSIVE AppendOps(_, _, _)
AppendOps(ops, txID, us) ==
  IF ops = <<>> THEN us
  ELSE AppendOps(Tail(ops), txID, AppendOuts(Head(ops).Outs, Head(ops).Asset, txID, us))

\* lines 50-72
UTXOs(t, txID) == AppendOps(t.Ops, txID, BaseUTXOs(t, txID))

\* t.BaseTx.InputUTXOs(): the UTXOID of each base input, in order
BaseInputUTXOs(t) == t.Ins

\* lines 30-39 with the inputs of the operations put first
RECURSIVE InputUTXOs_OpsFirst(_)
InputUTXOs_OpsFirst(t) ==
  IF t.Ops = <<>> THEN BaseInputUTXOs(t)
  ELSE Head(t.Ops).Ins \o InputUTXOs_OpsFirst([t EXCEPT !.Ops = Tail(t.Ops)])

\* lines 32-37: the loops over t.Ops and op.Ins
RECURSIVE AppendIns(_, _)
AppendIns(ops, us) ==
  IF ops = <<>> THEN us
  ELSE AppendIns(Tail(ops), us \o [x \in 1..Len(Head(ops).Ins) |-> Head(ops).Ins[x]])

\* lines 30-39
InputUTXOs(t) == AppendIns(t.Ops, BaseInputUTXOs(t))

\* what SemanticVerify reads of parent.UTXOs(): the asset of each, in order
AssetsOf(us) == [x \in 1..Len(us) |-> us[x].Asset]

(***************************************************************************)
(* The ancestor path of SemanticVerify (lines 140-164) with the ancestors  *)
(* as transactions of a pool: parent.Verify() verifies the ancestor, which *)
(* resolves its own inputs the same way.                                   *)
(***************************************************************************)
\* the deepest the calls are followed
MaxDepth == 3

PoolTxIDs == {1, 2}

PoolUTXOIDs == [TxID : PoolTxIDs, OutputIndex : {0, 1}]

\* transaction 1 is the one submitted: one operation that spends up to two outputs
SubmittedTxSet ==
  {[BaseOuts |-> <<>>,
    Ops |-> <<[Asset |-> a, Ins |-> ins, Outs |-> <<CHOOSE o \in OutPayloads : TRUE>>]>>] :
     a \in Assets, ins \in SeqsUpTo(PoolUTXOIDs, 2)}

\* transaction 2 is an earlier one: base outputs and up to two operations that
\* produce outputs, each spending nothing or the first output of transaction 1
EarlierOps ==
  [Asset : Assets,
   Ins : {<<>>, <<[TxID |-> 1, OutputIndex |-> 0]>>},
   Outs : SeqsUpTo(OutPayloads, 1)]

EarlierTxSet == [BaseOuts : SeqsUpTo(Assets, 1), Ops : SeqsUpTo(EarlierOps, 2)]

\* the call of SemanticVerify on transaction txID, at its first operation
Frame(txID) == [tx |-> txID, k |-> 1, i |-> 0, utxos |-> <<>>, err |-> "none"]

InitAncestors ==
  /\ \E t1 \in SubmittedTxSet, t2 \in EarlierTxSet :
       pool = [x \in PoolTxIDs |-> IF x = 1 THEN t1 ELSE t2]
  /\ stack = <<Frame(1)>>
  /\ ret = "none"

\* the innermost call, and the input it is at
Top == stack[Len(stack)]

TopOp == pool[Top.tx].Ops[Top.k]

Running ==
  /\ stack # <<>>
  /\ Top.err = "none"

AtInput ==
  /\ Running
  /\ Top.k <= Len(pool[Top.tx].Ops)
  /\ Top.i < Len(TopOp.Ins)

\* the frame f after its current input was resolved as r (lines 134-138, 147-164)
Resolved(f, r) ==
  IF r.err # "nil" THEN [f EXCEPT !.err = r.err]
  ELSE [f EXCEPT !.i = @ + 1, !.utxos = Append(@, r.asset)]

ReplaceTop(f) == [stack EXCEPT ![Len(stack)] = f]

\* lines 128-138: the store holds the output of the input
AncStore ==
  /\ AtInput
  /\ LET in == TopOp.Ins[Top.i + 1]
     IN /\ store[in] # NoUTXO
        /\ stack' = ReplaceTop(Resolved(Top, Resolve(store, TopOp, in, TRUE, FALSE, <<>>)))
  /\ UNCHANGED <<pool, ret, txVars, packerVars, idVars>>

\* lines 140-146: the store does not hold it; parent.Verify() is called, which
\* calls SemanticVerify on the ancestor
AncVerify ==
  /\ AtInput
  /\ Len(stack) < MaxDepth
  /\ LET in == TopOp.Ins[Top.i + 1]
     IN /\ store[in] = NoUTXO
        /\ stack' = Append(stack, Frame(InputSource(in)[1]))
  /\ UNCHANGED <<pool, ret, txVars, packerVars, idVars>>

\* lines 166-193: the inputs of the operation are resolved; on to the next operation
AncNextOp ==
  /\ Running
  /\ Top.k <= Len(pool[Top.tx].Ops)
  /\ Top.i = Len(TopOp.Ins)
  /\ stack' = ReplaceTop([Top EXCEPT !.k = @ + 1, !.i = 0, !.utxos = <<>>])
  /\ UNCHANGED <<pool, ret, txVars, packerVars, idVars>>

\* line 194: every operation passed
AncNil ==
  /\ Running
  /\ Top.k > Len(pool[Top.tx].Ops)
  /\ stack' = ReplaceTop([Top EXCEPT !.err = "nil"])
  /\ UNCHANGED <<pool, ret, txVars, packerVars, idVars>>

\* the innermost call returns. Its caller goes on at lines 147-164 with what
\* parent.Verify() returned and with parent.UTXOs()
AncReturn ==
  /\ stack # <<>>
  /\ Top.err # "none"
  /\ ret' = Top.err
  /\ IF Len(stack) = 1
     THEN stack' = <<>>
     ELSE LET caller == stack[Len(stack) - 1]
              op == pool[caller.tx].Ops[caller.k]
              in == op.Ins[caller.i + 1]
              r == Resolve(store, op, in, Top.err # "nil", FALSE,
                           AssetsOf(UTXOs(pool[Top.tx], Top.tx)))
          IN stack' = Append(SubSeq(stack, 1, Len(stack) - 2), Resolved(caller, r))
  /\ UNCHANGED <<pool, txVars, packerVars, idVars>>

NextAncestors == AncStore \/ AncVerify \/ AncNextOp \/ AncNil \/ AncReturn

\* transaction 1 of a pool is verified; the store holds nothing, or the first
\* output of transaction 2
InitAncestorsOnly ==
  /\ \E a \in {NoUTXO} \cup Assets :
       store = [u \in PoolUTXOIDs |-> IF u = [TxID |-> 2, OutputIndex |-> 0] THEN a ELSE NoUTXO]
  /\ tx = [p \in Procs |-> NilTx]
  /\ pc = [p \in Procs |-> "absent"]
  /\ InitLocals
  /\ PackerIdle /\ IDIdle /\ InitAncestors

SpecAncestors == InitAncestorsOnly /\ [][NextAncestors]_vars

(***************************************************************************)
(* What the properties below speak of.                                     *)
(***************************************************************************)
\* SyntacticVerify has returned for process p
SynReturned(p) == synErr[p] # "none"

\* the inputs of all operations, in declared order
RECURSIVE OpInputs(_)
OpInputs(ops) == IF ops = <<>> THEN <<>> ELSE Head(ops).Ins \o OpInputs(Tail(ops))

\* some operation input names the UTXOID of a base input or of an earlier operation input
HasDoubleSpend(t) ==
  LET all == OpInputs(t.Ops)
  IN \E y \in 1..Len(all) :
       \/ InputID(all[y]) \in {InputID(t.Ins[x]) : x \in 1..Len(t.Ins)}
       \/ \E x \in 1..(y - 1) : InputID(all[x]) = InputID(all[y])

\* the base transaction and every operation verified passed their own verification
SubEntitiesPassed(p) == synErr[p] \notin {"none", "errNilTx", "errBaseTx", "errOpVerify"}

\* two operations of the list are equal and carry inputs
HasIdenticalOpsWithInputs(ops) ==
  \E x, y \in 1..Len(ops) : x < y /\ ops[x] = ops[y] /\ Len(ops[x].Ins) > 0

\* the operations of the list, each once, in canonical order
RECURSIVE SortSet(_)
SortSet(S) ==
  IF S = {} THEN <<>>
  ELSE LET m == CHOOSE o \in S : \A q \in S : ~BytesLess(Marshal(q), Marshal(o))
       IN <<m>> \o SortSet(S \ {m})

SortedDeduplicated(ops) == SortSet({ops[x] : x \in 1..Len(ops)})

(***************************************************************************)
(* C1 as stated: when the base transaction passes, an operation input that *)
(* repeats the UTXOID of a base input or of an earlier operation input     *)
(* makes SyntacticVerify return errDoubleSpend.                            *)
(***************************************************************************)
C1_DoubleSpendAlways ==
  \A p \in Procs :
    (synErr[p] \notin {"none", "errNilTx", "errBaseTx"} /\ HasDoubleSpend(tx[p]))
      => synErr[p] = "errDoubleSpend"

(***************************************************************************)
(* C1 amended: when the base transaction passes and no operation reached   *)
(* before the repeated input failed its own Verify, an operation input     *)
(* that repeats the UTXOID of a base input or of an earlier operation      *)
(* input makes SyntacticVerify return errDoubleSpend.                      *)
(***************************************************************************)
C1_DoubleSpend ==
  \A p \in Procs :
    (SubEntitiesPassed(p) /\ HasDoubleSpend(tx[p])) => synErr[p] = "errDoubleSpend"

\* a double spend of a base input, found in the second operation
C1_Witness ==
  \E p \in Procs :
    /\ synErr[p] = "errDoubleSpend"
    /\ k[p] = 2
    /\ Len(tx[p].Ins) = 1
    /\ \E x \in 1..Len(tx[p].Ops[2].Ins) : tx[p].Ops[2].Ins[x] = tx[p].Ins[1]

(***************************************************************************)
(* C2 as stated: a transaction whose sub-entities pass and whose           *)
(* operations are out of canonical order or repeated makes SyntacticVerify *)
(* return errOperationsNotSortedUnique.                                    *)
(***************************************************************************)
C2_NotSortedAlways ==
  \A p \in Procs :
    (SubEntitiesPassed(p) /\ ~isSortedAndUniqueOperations(tx[p].Ops))
      => synErr[p] = "errOperationsNotSortedUnique"

(***************************************************************************)
(* C2 amended: a transaction whose sub-entities pass, whose operation      *)
(* inputs spend no UTXOID twice and whose operations are out of canonical  *)
(* order or repeated makes SyntacticVerify return                          *)
(* errOperationsNotSortedUnique; two identical operations that carry       *)
(* inputs make it return errDoubleSpend instead; and the operations put in *)
(* canonical order and deduplicated pass the sorted-and-unique check.      *)
(***************************************************************************)
C2_NotSorted ==
  \A p \in Procs :
    /\ (SubEntitiesPassed(p) /\ synErr[p] # "errDoubleSpend"
          /\ ~isSortedAndUniqueOperations(tx[p].Ops))
         => synErr[p] = "errOperationsNotSortedUnique"
    /\ (SubEntitiesPassed(p) /\ HasIdenticalOpsWithInputs(tx[p].Ops))
         => synErr[p] = "errDoubleSpend"
    /\ SynReturned(p) => isSortedAndUniqueOperations(SortedDeduplicated(tx[p].Ops))
    /\ (SynReturned(p) /\ tx[p].Ops = SortedDeduplicated(tx[p].Ops))
         => synErr[p] # "errOperationsNotSortedUnique"

\* two identical operations without inputs, rejected as not sorted and unique
C2_Witness ==
  \E p \in Procs :
    /\ synErr[p] = "errOperationsNotSortedUnique"
    /\ Len(tx[p].Ops) = 2
    /\ tx[p].Ops[1] = tx[p].Ops[2]

(***************************************************************************)
(* C3 as stated: when SyntacticVerify returns nil, the input identifiers   *)
(* of all base inputs and all operation inputs are pairwise distinct,      *)
(* every operation passed its Verify, and the operations are sorted and    *)
(* unique.                                                                 *)
(***************************************************************************)
AllInputs(t) == t.Ins \o OpInputs(t.Ops)

InSemantic(p) ==
  \/ pc[p] \in {"semOps", "done", "panic"}
  \/ semErr[p] # "none"
  \/ lookups[p] # <<>>
  \/ fxCalls[p] # <<>>

C4_SyntacticFirst ==
  \A p \in Procs :
    /\ InSemantic(p) => synErr[p] = "nil"
    /\ synErr[p] # "nil" => (pc[p] \in {"absent", "start", "synOps", "synRet"}
                              /\ creds[p] = <<>>)

\* SemanticVerify has returned for a transaction that passed SyntacticVerify
C4_Witness ==
  \E p \in Procs : pc[p] = "done" /\ synErr[p] = "nil" /\ Len(tx[p].Ops) = 2

(***************************************************************************)
(* C5: every input resolution (from the store or from an ancestor) that    *)
(* found an output whose asset differs from the operation's asset ended    *)
(* SemanticVerify with errAssetIDMismatch, and no fx was dispatched for    *)
(* that operation.                                                         *)
(***************************************************************************)
Mismatch(p, l) ==
  /\ l.res.from \in {"store", "ancestor"}
  /\ l.res.asset # tx[p].Ops[l.op].Asset

C5_AssetMismatch ==
  \A p \in Procs :
    \A x \in 1..Len(lookups[p]) :
      Mismatch(p, lookups[p][x]) =>
        /\ pc[p] = "done"
        /\ semErr[p] = "errAssetIDMismatch"
        /\ x = Len(lookups[p])
        /\ \A c \in 1..Len(fxCalls[p]) : fxCalls[p][c].op # lookups[p][x].op

\* an asset mismatch on an output resolved through the ancestor
C5_Witness ==
  \E p \in Procs :
    \E x \in 1..Len(lookups[p]) :
      Mismatch(p, lookups[p][x]) /\ lookups[p][x].res.from = "ancestor"

(***************************************************************************)
(* C6: for an input absent from the store, an ancestor that fails its      *)
(* verification or is decided ends SemanticVerify with errMissingUTXO;     *)
(* otherwise an output index not below the number of outputs of the        *)
(* ancestor ends it with errInvalidUTXO.                                   *)
(***************************************************************************)
C6_MissingInvalid ==
  \A p \in Procs :
    \A x \in 1..Len(lookups[p]) :
      LET r == lookups[p][x].res
      IN store[r.in] = NoUTXO =>
           /\ (~r.verified \/ r.decided) =>
                (pc[p] = "done" /\ semErr[p] = "errMissingUTXO")
           /\ (r.verified /\ ~r.decided /\ r.nOuts <= InputSource(r.in)[2]) =>
                (pc[p] = "done" /\ semErr[p] = "errInvalidUTXO")
           /\ r.err = "nil" =>
                (r.verified /\ ~r.decided /\ InputSource(r.in)[2] < r.nOuts)

\* a decided ancestor, and an output index out of range
C6_Witness ==
  \E p \in Procs :
    \E x \in 1..Len(lookups[p]) :
      /\ lookups[p][x].res.verified
      /\ lookups[p][x].res.nOuts = 1
      /\ semErr[p] = "errInvalidUTXO"

(***************************************************************************)
(* C7: the credential paired with input i of operation k is                *)
(* creds[B + S_k + i], B the number of base inputs and S_k the number of   *)
(* inputs of the operations before k; no position is paired twice, and     *)
(* the credentials handed to the fx of operation k are those positions.    *)
(***************************************************************************)
RECURSIVE SumIns(_, _)
SumIns(ops, n) == IF n = 0 THEN 0 ELSE SumIns(ops, n - 1) + Len(ops[n].Ins)

Aligned(t, kk, ii) == Len(t.Ins) + SumIns(t.Ops, kk - 1) + ii

C7_CredentialsAligned ==
  \A p \in Procs :
    /\ \A x \in 1..Len(lookups[p]) :
         /\ lookups[p][x].cred = Aligned(tx[p], lookups[p][x].op, lookups[p][x].i)
         /\ lookups[p][x].cred < Len(creds[p])
         /\ \A y \in 1..Len(lookups[p]) :
              x # y => lookups[p][x].cred # lookups[p][y].cred
    /\ \A c \in 1..Len(fxCalls[p]) :
         LET call == fxCalls[p][c]
         IN call.creds = [j \in 1..Len(tx[p].Ops[call.op].Ins) |->
                            creds[p][Aligned(tx[p], call.op, j - 1) + 1]]

\* the input of the second operation read the credential after the first operation's
C7_Witness ==
  \E p \in Procs :
    /\ Len(fxCalls[p]) = 2
    /\ fxCalls[p][1].creds = <<Len(tx[p].Ins)>>
    /\ fxCalls[p][2].creds = <<Len(tx[p].Ins) + 1>>

(***************************************************************************)
(* C8: when SemanticVerify returns nil, every input of every operation was *)
(* resolved to an output that exists (in the store, or produced by a       *)
(* verified, undecided ancestor), that no other operation input of the     *)
(* transaction consumes, and whose asset is the operation's; and for every *)
(* operation the fx found and permitted was invoked and returned nil.      *)
(***************************************************************************)
C8_SemanticSuccess ==
  \A p \in Procs :
    semErr[p] = "nil" =>
      LET all == OpInputs(tx[p].Ops)
      IN /\ Len(lookups[p]) = Len(all)
         /\ \A x \in 1..Len(lookups[p]) :
              LET l == lookups[p][x]
              IN /\ l.res.in = all[x]
                 /\ l.res.in = tx[p].Ops[l.op].Ins[l.i + 1]
                 /\ l.res.err = "nil"
                 /\ l.res.asset = tx[p].Ops[l.op].Asset
                 /\ \/ l.res.from = "store" /\ store[l.res.in] = l.res.asset
                    \/ /\ l.res.from = "ancestor"
                       /\ store[l.res.in] = NoUTXO
                       /\ l.res.verified /\ ~l.res.decided
                       /\ l.res.in.OutputIndex < l.res.nOuts
                 /\ \A y \in 1..Len(lookups[p]) :
                      x # y => lookups[p][y].res.in # l.res.in
         /\ Len(fxCalls[p]) = Len(tx[p].Ops)
         /\ \A c \in 1..Len(fxCalls[p]) :
              /\ fxCalls[p][c].op = c
              /\ fxCalls[p][c].res.found /\ fxCalls[p][c].res.permitted
              /\ fxCalls[p][c].res.invoked /\ fxCalls[p][c].res.err = "nil"

\* success with one input resolved from the store and one through the ancestor
C8_Witness ==
  \E p \in Procs :
    /\ semErr[p] = "nil"
    /\ Len(lookups[p]) = 2
    /\ lookups[p][1].res.from = "store"
    /\ lookups[p][2].res.from = "ancestor"

(***************************************************************************)
(* C9 as stated: of two transactions that spend the same unspent output    *)
(* and are verified concurrently against the same store, at most one       *)
(* SemanticVerify returns nil.                                             *)
(***************************************************************************)
Spends(t, u) == \E x \in 1..Len(OpInputs(t.Ops)) : OpInputs(t.Ops)[x] = u

C9_AtMostOneSucceeds ==
  \A p, q \in Procs :
    (p # q /\ \E u \in UTXOIDs : store[u] # NoUTXO /\ Spends(tx[p], u) /\ Spends(tx[q], u))
      => ~(semErr[p] = "nil" /\ semErr[q] = "nil")

(***************************************************************************)
(* C10 as stated: SemanticVerify returns nil or an error for every         *)
(* transaction and every credential list; it never reads a position of     *)
(* creds that does not exist.                                              *)
(***************************************************************************)
C10_NeverPanics == \A p \in Procs : pc[p] # "panic"

(***************************************************************************)
(* C11: a pack that finds less room left than the width of its value sets  *)
(* the error of the session, and the bytes written before it stay: a new   *)
(* session over the buffer unpacks every value packed before, in order.    *)
(***************************************************************************)
PackedWidths == [j \in 1..Len(packed) |-> packed[j].w]

PackedValues == [j \in 1..Len(packed) |-> packed[j].v]

C11_OverflowKeepsWritten ==
  /\ calls.overflow => Errored(packer)
  /\ UnpackAll(NewPacker(packer.Bytes, 0), PackedWidths) = PackedValues

\* TestPacker: MaxSize 3, PackShort(17) fits, a second PackShort does not; a
\* new session over the bytes unpacks 17
C11_Witness ==
  /\ packer.MaxSize = 3
  /\ packed = <<[w |-> ShortLen, v |-> 17]>>
  /\ calls.overflow
  /\ Errored(packer)
  /\ Unpack(NewPacker(packer.Bytes, 0), ShortLen).val = 17

(***************************************************************************)
(* C12: once the session has an error, every later pack or unpack leaves   *)
(* the buffer and the read offset as they were, and the session still      *)
(* reports the error.                                                      *)
(***************************************************************************)
C12_StickyError ==
  [][Errored(packer) => /\ packer'.Bytes = packer.Bytes
                        /\ packer'.Offset = packer.Offset
                        /\ Errored(packer')]_vars

\* after the error a byte was packed though there was room for it, and a byte
\* was unpacked though one was left to read
C12_Witness ==
  /\ Errored(packer)
  /\ {"PackByte", "UnpackByte"} \subseteq calls.afterErr
  /\ Len(packer.Bytes) < packer.MaxSize
  /\ packer.Offset < Len(packer.Bytes)

(***************************************************************************)
(* C13: for every ID and every i in 0..255, Bit(i) is 0 or 1 and is the    *)
(* bit i mod 8, counted from the least significant, of byte i / 8; an ID   *)
(* whose only set bit is bit k of byte j has Bit(8j+k) = 1 and Bit(m) = 0  *)
(* for every other m.                                                      *)
(***************************************************************************)
\* bit n of the byte b, counted from the least significant: b mod 2^(n+1)
\* reaches 2^n exactly when that bit is set
BitOfByte(b, n) == IF (b % (2 ^ (n + 1))) >= 2 ^ n THEN 1 ELSE 0

\* the bytes of the ID that are not zero
NonZeroBytes == {b \in 1..Len(id) : id[b] # 0}

C13_BitLittleEndianInByte ==
  bit.called =>
    /\ bit.res \in {0, 1}
    /\ bit.res = BitOfByte(id[(bit.i \div 8) + 1], bit.i % 8)
    /\ \A j \in NonZeroBytes : \A n \in 0..7 :
         (NonZeroBytes = {j} /\ id[j] = 2 ^ n)
           => (bit.res = 1 <=> bit.i = 8 * (j - 1) + n)

\* TestIDBit: NewID([32]byte{0, 1 << 0}).Bit(8) is 1
C13_Witness ==
  /\ bit.called
  /\ id = OneBitID(1, 0)
  /\ bit.i = 8
  /\ bit.res = 1

(***************************************************************************)
(* C14: SyntacticVerify evaluates its checks in one order (nil             *)
(* transaction, base transaction, then per operation its Verify and the    *)
(* double-spend test of each of its inputs, then sortedness) and returns   *)
(* at the first that fails: the check that failed is the last one          *)
(* evaluated, the double-spend reported is the first in the order of the   *)
(* inputs, and sortedness is evaluated only after every earlier check of   *)
(* every operation has passed.                                             *)
(***************************************************************************)
\* the checks of the operations ops, in the order of lines 90-101
RECURSIVE OpChecks(_)
OpChecks(ops) ==
  IF ops = <<>> THEN <<>>
  ELSE <<"opVerify">> \o [x \in 1..Len(Head(ops).Ins) |-> "doubleSpend"]
         \o OpChecks(Tail(ops))

\* every check of SyntacticVerify on t, in the order of lines 76-104
AllChecks(t) ==
  IF t.nil THEN <<"nil">>
  ELSE <<"nil", "base">> \o OpChecks(t.Ops) \o <<"sorted">>

IsPrefix(a, b) == Len(a) <= Len(b) /\ SubSeq(b, 1, Len(a)) = a

\* the check that returns the error e
FailedCheck(e) ==
  CASE e = "errNilTx" -> "nil"
    [] e = "errBaseTx" -> "base"
    [] e = "errOpVerify" -> "opVerify"
    [] e = "errDoubleSpend" -> "doubleSpend"
    [] e = "errOperationsNotSortedUnique" -> "sorted"

\* operation input number n (in the order of the operations) names a UTXOID
\* that a base input or an earlier operation input names
RepeatsEarlier(t, n) ==
  \/ \E x \in 1..Len(t.Ins) : t.Ins[x] = OpInputs(t.Ops)[n]
  \/ \E m \in 1..(n - 1) : OpInputs(t.Ops)[m] = OpInputs(t.Ops)[n]

C14_FailFastOrder ==
  \A p \in Procs :
    LET done == checks[p]
        nIns == Cardinality({x \in 1..Len(done) : done[x] = "doubleSpend"})
    IN  /\ IsPrefix(done, AllChecks(tx[p]))
        /\ synErr[p] \notin {"none", "nil"}
             => /\ done # <<>>
                /\ done[Len(done)] = FailedCheck(synErr[p])
        /\ synErr[p] = "errDoubleSpend"
             => /\ RepeatsEarlier(tx[p], nIns)
                /\ \A m \in 1..(nIns - 1) : ~RepeatsEarlier(tx[p], m)
        /\ (\E x \in 1..Len(done) : done[x] = "sorted") => done = AllChecks(tx[p])
        /\ synErr[p] = "nil" => done = AllChecks(tx[p])

\* the second operation fails its double-spend test after the first passed
\* every check; the operations are not sorted either, and sortedness was
\* not evaluated
C14_Witness ==
  \E p \in Procs :
    /\ synErr[p] = "errDoubleSpend"
    /\ k[p] = 2
    /\ ~isSortedAndUniqueOperations(tx[p].Ops)
    /\ \A x \in 1..Len(checks[p]) : checks[p][x] # "sorted"

(***************************************************************************)
(* C15: for every input SemanticVerify asks the UTXO store first. When the *)
(* store holds the output, that output is used and the ancestor            *)
(* transaction is not asked to verify, for its status or for its outputs;  *)
(* the ancestor is asked only when the store does not hold the output.     *)
(***************************************************************************)
C15_StoreBeforeAncestor ==
  \A p \in Procs : \A x \in 1..Len(lookups[p]) :
    LET r == lookups[p][x].res
    IN  IF store[r.in] # NoUTXO
        THEN /\ r.from = "store"
             /\ r.asset = store[r.in]
             /\ ~r.verified /\ ~r.decided /\ r.nOuts = -1
             /\ r.err \in {"nil", "errAssetIDMismatch"}
        ELSE /\ r.from # "store"
             /\ r.err = "errMissingUTXO" \/ r.verified

\* one input was taken from the store, and the next, which the store does not
\* hold, was asked of its ancestor, which failed to verify
C15_Witness ==
  \E p \in Procs :
    /\ Len(lookups[p]) = 2
    /\ lookups[p][1].res.from = "store"
    /\ lookups[p][1].res.err = "nil"
    /\ store[lookups[p][2].res.in] = NoUTXO
    /\ lookups[p][2].res.err = "errMissingUTXO"
    /\ ~lookups[p][2].res.verified

(***************************************************************************)
(* C16: the payload an operation is dispatched on is that of its first     *)
(* input when it has inputs, else that of its first output when it has     *)
(* outputs, else none: an operation with neither is dispatched on the      *)
(* empty key.                                                              *)
(***************************************************************************)
C16_DispatchPayload ==
  \A p \in Procs : \A x \in 1..Len(fxCalls[p]) :
    LET c == fxCalls[p][x]
        op == tx[p].Ops[c.op]
    IN  /\ c.op = x
        /\ Len(op.Ins) > 0
             => c.fxObj = [kind |-> "in", payload |-> InPayload(op.Ins[1])]
        /\ (Len(op.Ins) = 0 /\ Len(op.Outs) > 0)
             => c.fxObj = [kind |-> "out", payload |-> op.Outs[1]]
        /\ (Len(op.Ins) = 0 /\ Len(op.Outs) = 0) => c.fxObj.kind = "nil"

\* one transaction had an operation with neither inputs nor outputs dispatched
\* on the empty key, and an operation with an input and an output dispatched
\* on the input
C16_Witness ==
  \E p \in Procs : \E x, y \in 1..Len(fxCalls[p]) :
    /\ fxCalls[p][x].fxObj.kind = "nil"
    /\ fxCalls[p][y].fxObj.kind = "in"
    /\ Len(tx[p].Ops[fxCalls[p][y].op].Outs) > 0

(***************************************************************************)
(* C17: fx.VerifyOperation is invoked for an operation only after every    *)
(* input of the operation was resolved with the asset of the operation,    *)
(* getFx found an fx and verifyFxUsage permitted it for the asset. When    *)
(* getFx fails SemanticVerify returns its error, when the fx is not        *)
(* permitted it returns errIncompatibleFx, and an error of VerifyOperation *)
(* is returned as it is; after any failure no later operation is examined. *)
(***************************************************************************)
\* every input of operation number n of process p has a recorded resolution
\* without error and with the asset of the operation
InputsResolved(p, n) ==
  \A j \in 1..Len(tx[p].Ops[n].Ins) :
    \E x \in 1..Len(lookups[p]) :
      /\ lookups[p][x].op = n
      /\ lookups[p][x].i = j - 1
      /\ lookups[p][x].res.in = tx[p].Ops[n].Ins[j]
      /\ lookups[p][x].res.err = "nil"
      /\ lookups[p][x].res.asset = tx[p].Ops[n].Asset

\* nothing of an operation after number n was examined by process p
NothingAfter(p, n) ==
  /\ \A x \in 1..Len(lookups[p]) : lookups[p][x].op <= n
  /\ \A x \in 1..Len(fxCalls[p]) : fxCalls[p][x].op <= n

C17_VerifyOperationLast ==
  \A p \in Procs :
    /\ \A x \in 1..Len(fxCalls[p]) :
         LET c == fxCalls[p][x]
         IN  /\ InputsResolved(p, c.op)
             /\ c.res.invoked <=> (c.ans.fxErr = "nil" /\ c.ans.usage)
             /\ c.ans.fxErr # "nil" => semErr[p] = c.ans.fxErr
             /\ (c.ans.fxErr = "nil" /\ ~c.ans.usage) => semErr[p] = "errIncompatibleFx"
             /\ (c.res.invoked /\ c.ans.opErr # "nil") => semErr[p] = c.ans.opErr
             /\ (~c.res.invoked \/ c.ans.opErr # "nil")
                  => pc[p] = "done" /\ NothingAfter(p, c.op)
    /\ \A x \in 1..Len(lookups[p]) :
         lookups[p][x].res.err # "nil"
           => /\ pc[p] = "done"
              /\ semErr[p] = lookups[p][x].res.err
              /\ x = Len(lookups[p])
              /\ \A y \in 1..Len(fxCalls[p]) : fxCalls[p][y].op < lookups[p][x].op

\* the first operation passed VerifyOperation, the second had its input
\* resolved and was permitted, and its VerifyOperation returned an error,
\* which SemanticVerify returned
C17_Witness ==
  \E p \in Procs :
    /\ Len(fxCalls[p]) = 2
    /\ fxCalls[p][1].res.invoked /\ fxCalls[p][1].res.err = "nil"
    /\ Len(tx[p].Ops[2].Ins) > 0
    /\ fxCalls[p][2].res.invoked /\ fxCalls[p][2].ans.opErr = "errFxVerify"
    /\ semErr[p] = "errFxVerify"

(***************************************************************************)
(* C18 as stated: SemanticVerify terminates for every finite set of        *)
(* transactions, also when ancestor references form a cycle: resolving an  *)
(* ancestor never recurses without bound. A verification that is entered   *)
(* again while it is in progress runs over the same store and pool as the  *)
(* first and so enters itself again without end; bounded recursion is      *)
(* that no transaction is twice among the calls in progress.               *)
(***************************************************************************)
C18_RecursionBounded ==
  \A x, y \in 1..Len(stack) : x < y => stack[x].tx # stack[y].tx

(***************************************************************************)
(* C19: UTXOs() is the UTXOs of the base transaction followed by one UTXO  *)
(* per output of each operation, in the order of the operations and of     *)
(* their outputs; each carries the ID of the transaction, the asset of its *)
(* operation and, as OutputIndex, its position in the list. With the base  *)
(* UTXOs numbered from 0 the UTXOIDs are distinct, and an input that names *)
(* (txID, n) and is resolved through the ancestor resolves to the UTXO at  *)
(* position n.                                                             *)
(***************************************************************************)
\* the asset and the payload of every output of the operations ops, in order
RECURSIVE OpOutputs(_)
OpOutputs(ops) ==
  IF ops = <<>> THEN <<>>
  ELSE [x \in 1..Len(Head(ops).Outs) |-> [Asset |-> Head(ops).Asset, Out |-> Head(ops).Outs[x]]]
         \o OpOutputs(Tail(ops))

\* the list is as C19 says for transaction txID of the pool
ListedInOrder(txID) ==
  LET t == pool[txID]
      us == UTXOs(t, txID)
      b == Len(t.BaseOuts)
      outs == OpOutputs(t.Ops)
  IN  /\ Len(us) = b + Len(outs)
      /\ SubSeq(us, 1, b) = BaseUTXOs(t, txID)
      /\ \A n \in 1..Len(outs) :
           /\ us[b + n].Asset = outs[n].Asset
           /\ us[b + n].Out = outs[n].Out
      /\ \A n \in 1..Len(us) : us[n].TxID = txID /\ us[n].OutputIndex = n - 1
      /\ \A n, m \in 1..Len(us) :
           n # m => <<us[n].TxID, us[n].OutputIndex>> # <<us[m].TxID, us[m].OutputIndex>>

\* the outputs a call in progress has resolved through the ancestor are the
\* ones at the named positions of the ancestor's list
ResolvedByPosition(f) ==
  \A n \in 1..Len(f.utxos) :
    LET in == pool[f.tx].Ops[f.k].Ins[n]
        us == UTXOs(pool[in.TxID], in.TxID)
    IN  store[in] = NoUTXO
          => /\ in.OutputIndex < Len(us)
             /\ us[in.OutputIndex + 1].TxID = in.TxID
             /\ us[in.OutputIndex + 1].OutputIndex = in.OutputIndex
             /\ us[in.OutputIndex + 1].Asset = f.utxos[n]

C19_UTXOsIndexedInOrder ==
  /\ \A txID \in DOMAIN pool : ListedInOrder(txID)
  /\ \A x \in 1..Len(stack) : ResolvedByPosition(stack[x])

\* transaction 2 has a base output and two operations of different assets
\* with an output each; transaction 1 resolved through the ancestor first
\* position 1 of that list (the output of the first operation) and then
\* position 0 (the base output)
C19_Witness ==
  /\ stack # <<>>
  /\ Len(pool[2].BaseOuts) = 1
  /\ Len(OpOutputs(pool[2].Ops)) = 2
  /\ pool[2].Ops[1].Asset # pool[2].Ops[2].Asset
  /\ stack[1].tx = 1
  /\ Len(stack[1].utxos) = 2
  /\ pool[1].Ops[1].Ins = <<[TxID |-> 2, OutputIndex |-> 1], [TxID |-> 2, OutputIndex |-> 0]>>
  /\ store[[TxID |-> 2, OutputIndex |-> 0]] = NoUTXO

(***************************************************************************)
(* C20: InputUTXOs() is the UTXOIDs of the base inputs followed by the     *)
(* UTXOID of every input of every operation, in order; its length is the   *)
(* number of base inputs plus the number of operation inputs, and the      *)
(* position of an operation input in it is the index of the credential     *)
(* (i+offset) that SemanticVerify reads for that input.                    *)
(***************************************************************************)
C20_InputUTXOsAlignCredentials ==
  \A p \in Procs :
    ~tx[p].nil =>
      LET t == tx[p]
          us == InputUTXOs(t)
      IN  /\ Len(us) = Len(t.Ins) + SumIns(t.Ops, Len(t.Ops))
          /\ \A x \in 1..Len(t.Ins) : us[x] = t.Ins[x]
          /\ \A n \in 1..Len(t.Ops) : \A j \in 1..Len(t.Ops[n].Ins) :
               us[Len(t.Ins) + SumIns(t.Ops, n - 1) + j] = t.Ops[n].Ins[j]
          /\ \A x \in 1..Len(lookups[p]) :
               /\ lookups[p][x].cred < Len(us)
               /\ us[lookups[p][x].cred + 1] = lookups[p][x].res.in

\* a transaction with a base input: the input of its operation is at position 1
\* of the list and was resolved with the credential at index 1
C20_Witness ==
  \E p \in Procs :
    /\ Len(tx[p].Ins) = 1
    /\ Len(lookups[p]) = 1
    /\ lookups[p][1].cred = 1
    /\ lookups[p][1].res.err = "nil"
    /\ InputUTXOs(tx[p])[2] = tx[p].Ops[1].Ins[1]
    /\ InputUTXOs(tx[p])[1] # InputUTXOs(tx[p])[2]

====
